---- MODULE Spec2Model ----
(***************************************************************************)
(* The pointer-driven window manager of the Desktop component: the z-order *)
(* focus stack kept in each window's inline style.zIndex, the drag session *)
(* kept in the dragState ref, and the geometry written to each window's    *)
(* inline style by the mouse and touch handlers.                           *)
(*                                                                         *)
(* Modelling decisions:                                                    *)
(*  - A window's inline style is the record [top, left, width, height]     *)
(*    (pixels, integers) plus zIndex.  style.zIndex is a DOM string; it is *)
(*    modelled as a sequence of characters, a digit d as the number d and  *)
(*    the minus sign as -1, which keeps the order of the UTF-16 code units *)
(*    ("-" < "0" < ... < "9") that JavaScript compares strings by.         *)
(*  - getBoundingClientRect() is taken to return the inline rect.          *)
(*  - minWidth, minHeight and bodyMargin are imported from the Window      *)
(*    module, which does not define them in the sources at hand; they are  *)
(*    taken to be the positive pixel constants the specification says.     *)
(***************************************************************************)
EXTENDS Integers, Sequences, FiniteSets

VARIABLES
    windows,    \* the mounted windows, in document order: 1..N
    zIndex,     \* zIndex[w]: the string window w's style.zIndex holds
    rect,       \* rect[w]: window w's inline top/left/width/height
    dragState,  \* dragState.current: Null or the drag session
    lastEvent,  \* the event handled last (history)
    downs       \* number of pointer-down events handled (history, bounded)

vars == <<windows, zIndex, rect, dragState, lastEvent, downs>>

\* ---------------------------------------------------------------- bounds
MaxWindows == 2      \* children of the Desktop in Spec
MaxCoord == 1        \* pointer coordinates are 0..MaxCoord
MaxDowns == 2        \* pointer-down events handled in Spec
MaxStack == 11       \* children of the Desktop in SpecZ
MaxExtraDowns == 1   \* pointer-downs in SpecZ beyond one per window
MaxWideCoord == 2    \* pointer coordinates are 0..MaxWideCoord in SpecWide
MaxWideDowns == 1    \* pointer-down events handled in SpecWide

\* ------------------------------------------- constants read from Window
minWidth == 2
minHeight == 2
bodyMargin == 1

Null == [none |-> TRUE]

\* --------------------------------------------------- JavaScript strings
RECURSIVE Digits(_)
Digits(n) == IF n < 10 THEN <<n>> ELSE Append(Digits(n \div 10), n % 10)

\* String(n) for an integer n, as the style.zIndex setter stores it.
NumberToString(n) == IF n < 0 THEN <<-1>> \o Digits(-n) ELSE Digits(n)

RECURSIVE DigitsValue(_)
DigitsValue(s) ==
    IF s = <<>> THEN 0 ELSE 10 * DigitsValue(SubSeq(s, 1, Len(s) - 1)) + s[Len(s)]

\* Number(s) for the strings style.zIndex can hold ("" converts to 0).
StringToNumber(s) ==
    IF s = <<>> THEN 0
    ELSE IF s[1] = -1 THEN -DigitsValue(Tail(s))
    ELSE DigitsValue(s)

\* a > b for two strings: JavaScript compares them code unit by code unit,
\* and a proper prefix is the smaller string.
RECURSIVE StringGreater(_, _)
StringGreater(a, b) ==
    IF a = <<>> THEN FALSE
    ELSE IF b = <<>> THEN TRUE
    ELSE IF a[1] # b[1] THEN a[1] > b[1]
    ELSE StringGreater(Tail(a), Tail(b))

Max(a, b) == IF a >= b THEN a ELSE b
Min(a, b) == IF a <= b THEN a ELSE b

\* --------------------------------------------------------------- elements
DragClasses ==
    {"titleBar", "topResizer", "leftResizer", "rightResizer", "bottomResizer",
     "topLeftResizer", "topRightResizer", "bottomLeftResizer", "bottomRightResizer"}

\* The classes an event target of a window can carry: a handle, the body,
\* or "title", an untagged element (the title text inside the title bar).
Classes == DragClasses \cup {"body", "title"}

\* (variant: the body tagged as a handle too)
isDragElementOrBody(element) == element.class \in DragClasses \cup {"body"}
isDragElement(element) == element.class \in DragClasses

isFocusableElement(element) == isDragElement(element) \/ element.class = "body"

\* ----------------------------------------------------------- focus stack
\* The effect run on mount computes clones of the children carrying
\* zIndex = 0, 1, ... and drops them: no window's style.zIndex is written.
InitialZIndex(n) == [w \in 1..n |-> <<>>]

\* (variant: the target's own zIndex is not raised)
handleFocusChangeNoRaise(z, t) ==
    LET cutoffIndex == z[t]
    IN  [w \in DOMAIN z |->
            IF w # t /\ StringGreater(z[w], cutoffIndex)
            THEN NumberToString(StringToNumber(z[w]) - 1)
            ELSE z[w]]

\* handleFocusChange: the new style.zIndex of every window when the target's
\* parent window is t.
handleFocusChange(z, t) ==
    LET cutoffIndex == z[t]
    IN  [w \in DOMAIN z |->
            IF w = t THEN NumberToString(Max(Cardinality(DOMAIN z) - 1, 0))
            ELSE IF StringGreater(z[w], cutoffIndex) THEN NumberToString(StringToNumber(z[w]) - 1)
            ELSE z[w]]

\* ------------------------------------------------------------------ events
Coords == 0..MaxCoord

Desktop == [window |-> 0, class |-> "desktop"]

\* The elements a pointer event can target: the desktop surface, or an
\* element of a mounted window.
Targets == {Desktop} \cup [window : windows, class : Classes]

MouseEvent(type, target, x, y) ==
    [type |-> type, target |-> target, clientX |-> x, clientY |-> y, touches |-> <<>>]

\* A touch event carries its points in touches; only the first is read.
TouchEvent(type, target, x, y) ==
    [type |-> type, target |-> target,
     touches |-> <<[clientX |-> x, clientY |-> y], [clientX |-> 0, clientY |-> 0]>>]

StartsWithTouch(type) == type \in {"touchstart", "touchmove", "touchend"}

\* (variant: the last touch point is read instead of the first)
getEventPositionLastTouch(event) ==
    IF StartsWithTouch(event.type)
    THEN <<event.touches[Len(event.touches)].clientX,
           event.touches[Len(event.touches)].clientY>>
    ELSE <<event.clientX, event.clientY>>

getEventPosition(event) ==
    IF StartsWithTouch(event.type)
    THEN <<event.touches[1].clientX, event.touches[1].clientY>>
    ELSE <<event.clientX, event.clientY>>

Handled(event, pos, preventDefault) ==
    [type |-> event.type, target |-> event.target, x |-> pos[1], y |-> pos[2],
     prevented |-> preventDefault]

\* ---------------------------------------------------------------- geometry
\* (variant: no falsy check, so a placeholder 0 is written too)
moveElementZeroing(r, x, y) == [r EXCEPT !.left = x, !.top = y]

\* element.style.left/top = `${v}px`: skipped when v is falsy (0).
moveElement(r, x, y) ==
    [r EXCEPT !.left = IF x # 0 THEN x ELSE @,
              !.top = IF y # 0 THEN y ELSE @]

\* element.style.width/height = `${v}px`: skipped when v is falsy (0); the
\* style keeps its value when the assigned length is negative, which is not
\* a valid CSS width or height.
resizeElement(r, width, height) ==
    [r EXCEPT !.width = IF width > 0 THEN width ELSE @,
              !.height = IF height > 0 THEN height ELSE @]

getBoundingClientRect(w) == rect[w]

xResizeDelta(state, x) == state.width + x - state.x
yResizeDelta(state, y) == state.height + y - state.y
xResizeOffset(state, x) == state.width - x + state.x
yResizeOffset(state, y) == state.height - y + state.y
xMoveDelta(state, x) == state.left + x - state.x
yMoveDelta(state, y) == state.top + y - state.y
xMoveLimit(state) == state.left + state.width - minWidth
yMoveLimit(state) == state.top + state.height - minHeight - bodyMargin - 1

\* The branch of handleMouseMove taken for the session's element: the new
\* inline rect of the session's window r after a move to (x, y).
MoveWrites(r, state, x, y) ==
    LET c == state.element.class
    IN  CASE c = "titleBar" ->
               moveElement(r, xMoveDelta(state, x), yMoveDelta(state, y))
          [] c = "rightResizer" ->
               resizeElement(r, xResizeDelta(state, x), 0)
          [] c = "bottomResizer" ->
               resizeElement(r, 0, yResizeDelta(state, y))
          [] c = "bottomRightResizer" ->
               resizeElement(r, xResizeDelta(state, x), yResizeDelta(state, y))
          [] c = "topRightResizer" ->
               resizeElement(moveElement(r, 0, yMoveDelta(state, y)),
                             xResizeDelta(state, x), yResizeOffset(state, y))
          [] c = "leftResizer" ->
               resizeElement(moveElement(r, Min(xMoveDelta(state, x), xMoveLimit(state)), 0),
                             Max(xResizeOffset(state, x), minWidth), 0)
          [] c = "topResizer" ->
               resizeElement(moveElement(r, 0, Min(yMoveDelta(state, y), yMoveLimit(state))),
                             0, Max(yResizeOffset(state, y), minHeight))
          [] c = "bottomLeftResizer" ->
               resizeElement(moveElement(r, Min(xMoveDelta(state, x), xMoveLimit(state)), 0),
                             Max(xResizeOffset(state, x), minWidth), yResizeDelta(state, y))
          [] c = "topLeftResizer" ->
               resizeElement(moveElement(r, Min(xMoveDelta(state, x), xMoveLimit(state)),
                                            Min(yMoveDelta(state, y), yMoveLimit(state))),
                             Max(xResizeOffset(state, x), minWidth),
                             Max(yResizeOffset(state, y), minHeight))
          [] OTHER -> r

\* ---------------------------------------------------------------- handlers
handleMouseDown(event, preventDefault) ==
    LET element == event.target
        pos == getEventPosition(event)
        window == element.window
        box == getBoundingClientRect(window)
    IN  /\ zIndex' = IF isFocusableElement(element)
                     THEN handleFocusChange(zIndex, window)
                     ELSE zIndex
        /\ dragState' = IF isDragElement(element)
                        THEN [element |-> element, x |-> pos[1], y |-> pos[2],
                              top |-> box.top, left |-> box.left,
                              width |-> box.width, height |-> box.height]
                        ELSE dragState
        /\ lastEvent' = Handled(event, pos, preventDefault)
        /\ UNCHANGED <<windows, rect>>

\* (variant: the session is re-anchored at every move, deltas are incremental)
handleMouseMoveIncremental(event, preventDefault) ==
    LET state == dragState
        pos == getEventPosition(event)
    IN  /\ rect' = IF state = Null THEN rect
                   ELSE LET window == state.element.window
                        IN  [rect EXCEPT ![window] = MoveWrites(@, state, pos[1], pos[2])]
        /\ dragState' = IF state = Null THEN Null
                        ELSE LET box == rect'[state.element.window]
                             IN  [element |-> state.element, x |-> pos[1], y |-> pos[2],
                                  top |-> box.top, left |-> box.left,
                                  width |-> box.width, height |-> box.height]
        /\ lastEvent' = Handled(event, pos, preventDefault)
        /\ UNCHANGED <<windows, zIndex>>

\* (variant: without the early return, a missing session falls back to a
\* title-bar session on the first window, anchored at the origin)
handleMouseMoveUnguarded(event, preventDefault) ==
    LET box == getBoundingClientRect(1)
        state == IF dragState = Null
                 THEN [element |-> [window |-> 1, class |-> "titleBar"], x |-> 0, y |-> 0,
                       top |-> box.top, left |-> box.left,
                       width |-> box.width, height |-> box.height]
                 ELSE dragState
        pos == getEventPosition(event)
        window == state.element.window
    IN  /\ rect' = [rect EXCEPT ![window] = MoveWrites(@, state, pos[1], pos[2])]
        /\ lastEvent' = Handled(event, pos, preventDefault)
        /\ UNCHANGED <<windows, zIndex, dragState>>

handleMouseMove(event, preventDefault) ==
    LET state == dragState
        pos == getEventPosition(event)
    IN  /\ rect' = IF state = Null THEN rect
                   ELSE LET window == state.element.window
                        IN  [rect EXCEPT ![window] = MoveWrites(@, state, pos[1], pos[2])]
        /\ lastEvent' = Handled(event, pos, preventDefault)
        /\ UNCHANGED <<windows, zIndex, dragState>>

\* (variant: the session is not discarded)
handleMouseUpKeepsSession(event, preventDefault) ==
    /\ dragState' = dragState
    /\ lastEvent' = Handled(event, <<0, 0>>, preventDefault)
    /\ UNCHANGED <<windows, zIndex, rect>>

handleMouseUp(event, preventDefault) ==
    /\ dragState' = Null
    /\ lastEvent' = Handled(event, <<0, 0>>, preventDefault)
    /\ UNCHANGED <<windows, zIndex, rect>>

handleTouchStart(event) == handleMouseDown(event, FALSE)
handleTouchMove(event) == handleMouseMove(event, FALSE)
handleTouchEnd(event) == handleMouseUp(event, FALSE)

\* ----------------------------------------------------------- specification
\* The style a Window mounts with: its top, left, width and height props.
WindowProps == [top |-> 1, left |-> 1, width |-> 2, height |-> 4]

NoEvent == [type |-> "none", target |-> Desktop, x |-> 0, y |-> 0, prevented |-> FALSE]

Mounted(n) ==
    /\ windows = 1..n
    /\ zIndex = InitialZIndex(n)
    /\ rect = [w \in 1..n |-> WindowProps]
    /\ dragState = Null
    /\ lastEvent = NoEvent
    /\ downs = 0

Init == \E n \in 1..MaxWindows : Mounted(n)

MouseDown ==
    \E t \in Targets, x \in Coords, y \in Coords :
        /\ downs < MaxDowns
        /\ downs' = downs + 1
        /\ handleMouseDown(MouseEvent("mousedown", t, x, y), TRUE)

MouseMove ==
    \E x \in Coords, y \in Coords :
        /\ handleMouseMove(MouseEvent("mousemove", Desktop, x, y), TRUE)
        /\ UNCHANGED downs

MouseUp ==
    /\ handleMouseUp(MouseEvent("mouseup", Desktop, 0, 0), TRUE)
    /\ UNCHANGED downs

TouchStart ==
    \E t \in Targets, x \in Coords, y \in Coords :
        /\ downs < MaxDowns
        /\ downs' = downs + 1
        /\ handleTouchStart(TouchEvent("touchstart", t, x, y))

TouchMove ==
    \E x \in Coords, y \in Coords :
        /\ handleTouchMove(TouchEvent("touchmove", Desktop, x, y))
        /\ UNCHANGED downs

TouchEnd ==
    /\ handleTouchEnd([type |-> "touchend", target |-> Desktop, touches |-> <<>>])
    /\ UNCHANGED downs

Next == MouseDown \/ MouseMove \/ MouseUp \/ TouchStart \/ TouchMove \/ TouchEnd

Spec == Init /\ [][Next]_vars

\* The focus stack alone: pointer-downs on window bodies.  Windows are
\* interchangeable, so the first pointer-down of each window is taken in
\* mount order.
InitZ == \E n \in 1..MaxStack : Mounted(n)

BodyDown ==
    \E w \in windows :
        /\ zIndex[w] # <<>> \/ \A v \in 1..(w - 1) : zIndex[v] # <<>>
        /\ downs < Cardinality(windows) + MaxExtraDowns
        /\ downs' = downs + 1
        /\ handleMouseDown(MouseEvent("mousedown", [window |-> w, class |-> "body"], 0, 0), TRUE)

NextZ == BodyDown

SpecZ == InitZ /\ [][NextZ]_vars

\* One window and a wider range of pointer positions, mouse events only: a
\* drag can visit three positions on each axis.
WideCoords == 0..MaxWideCoord

InitWide == Mounted(1)

WideMouseDown ==
    \E t \in Targets, x \in WideCoords, y \in WideCoords :
        /\ downs < MaxWideDowns
        /\ downs' = downs + 1
        /\ handleMouseDown(MouseEvent("mousedown", t, x, y), TRUE)

WideMouseMove ==
    \E x \in WideCoords, y \in WideCoords :
        /\ handleMouseMove(MouseEvent("mousemove", Desktop, x, y), TRUE)
        /\ UNCHANGED downs

NextWide == WideMouseDown \/ WideMouseMove \/ MouseUp

SpecWide == InitWide /\ [][NextWide]_vars
\* ------------------------------------------------------------- vocabulary
IsDown(e) == e.type \in {"mousedown", "touchstart"}
IsMove(e) == e.type \in {"mousemove", "touchmove"}
IsUp(e) == e.type \in {"mouseup", "touchend"}

\* This step handled a pointer-down.
DownStep == downs' = downs + 1

\* This step handled a pointer-down that promoted window t.
Promoted(t) ==
    /\ DownStep
    /\ lastEvent'.target.window = t
    /\ isFocusableElement(lastEvent'.target)

\* The zIndex values the strings z hold.
ZValues(z) == {z[w] : w \in DOMAIN z}
ZSlots(z) == {NumberToString(i) : i \in 0..(Cardinality(DOMAIN z) - 1)}
IsPermutation(z) == ZValues(z) = ZSlots(z)

\* w holds the highest zIndex of the stack z.
IsTopmost(z, w) ==
    /\ z[w] # <<>>
    /\ \A v \in DOMAIN z : z[v] # <<>> => StringToNumber(z[v]) <= StringToNumber(z[w])

\* ------------------------------------------------------------------ claims
\* C1: in every reachable state the zIndex values of the N mounted windows
\* are exactly the set {0, ..., N-1}, with no duplicates and no gaps.
C1_ZOrderPermutation == IsPermutation(zIndex)

\* C2: promoting target t in a state whose zIndex values are the permutation
\* {0..N-1} gives t the zIndex N-1, decreases by one every other zIndex above
\* t's old zIndex, and keeps every zIndex below it.
C2_PromoteShiftsDown ==
    [][\A t \in windows :
          (IsPermutation(zIndex) /\ Promoted(t)) =>
              zIndex' = [w \in windows |->
                  IF w = t THEN NumberToString(Cardinality(windows) - 1)
                  ELSE IF StringToNumber(zIndex[w]) > StringToNumber(zIndex[t])
                       THEN NumberToString(StringToNumber(zIndex[w]) - 1)
                       ELSE zIndex[w]]]_vars

\* C3: when the windows have mounted and no pointer event has been handled,
\* the i-th window in mount order has zIndex i.
C3_InitialZIndexInMountOrder ==
    lastEvent = NoEvent => \A w \in windows : zIndex[w] = NumberToString(w - 1)

\* C4: promoting the window that already has the highest zIndex leaves every
\* window's zIndex unchanged.
C4_PromoteTopmostUnchanged ==
    [][\A t \in windows : (IsTopmost(zIndex, t) /\ Promoted(t)) => zIndex' = zIndex]_vars
\* This step handled a pointer-move.
MoveStep == IsMove(lastEvent')

\* A drag session exists and its element carries class c.
Dragging(c) == dragState # Null /\ dragState.element.class = c

\* C5: a pointer-move (mouse or touch) handled while no drag session exists
\* changes no window's rect, no window's zIndex, and creates no session.
C5_StrayMoveIsNoOp ==
    [][(dragState = Null /\ MoveStep) =>
          (rect' = rect /\ zIndex' = zIndex /\ dragState' = Null)]_vars

C5_Witness == IsMove(lastEvent) /\ dragState = Null /\ downs > 0

\* C6: in a session on the move handle, after a pointer-move at (x, y) the
\* target window has left = startRect.left + x - ax and
\* top = startRect.top + y - ay, and its width and height are unchanged.
C6_MoveDelta ==
    [][(Dragging("titleBar") /\ MoveStep) =>
          LET w == dragState.element.window
              e == lastEvent'
          IN  /\ rect'[w].left = dragState.left + e.x - dragState.x
              /\ rect'[w].top = dragState.top + e.y - dragState.y
              /\ rect'[w].width = rect[w].width
              /\ rect'[w].height = rect[w].height]_vars

\* C7: in a session on the west resize handle, after a pointer-move at (x, y)
\* the target window has width = max(startRect.width - x + ax, minWidth) and
\* left = min(startRect.left + x - ax, startRect.left + startRect.width -
\* minWidth), and its top and height are unchanged.
C7_WestResize ==
    [][(Dragging("leftResizer") /\ MoveStep) =>
          LET w == dragState.element.window
              e == lastEvent'
          IN  /\ rect'[w].width = Max(dragState.width - e.x + dragState.x, minWidth)
              /\ rect'[w].left = Min(dragState.left + e.x - dragState.x,
                                     dragState.left + dragState.width - minWidth)
              /\ rect'[w].top = rect[w].top
              /\ rect'[w].height = rect[w].height]_vars

\* C8: in a session on a far-edge handle (E, S, SE), after a pointer-move at
\* (x, y) the width is startRect.width + x - ax (E, SE) and the height is
\* startRect.height + y - ay (S, SE); left, top and the dimension the handle
\* does not list are unchanged.
C8_FarEdgeResize ==
    [][(dragState # Null /\ MoveStep
        /\ dragState.element.class \in {"rightResizer", "bottomResizer", "bottomRightResizer"}) =>
          LET w == dragState.element.window
              c == dragState.element.class
              e == lastEvent'
          IN  /\ rect'[w].width = IF c = "bottomResizer" THEN rect[w].width
                                  ELSE dragState.width + e.x - dragState.x
              /\ rect'[w].height = IF c = "rightResizer" THEN rect[w].height
                                   ELSE dragState.height + e.y - dragState.y
              /\ rect'[w].left = rect[w].left
              /\ rect'[w].top = rect[w].top]_vars

\* C9: in every reachable state every window's rect has top, left, width and
\* height non-negative, with width >= minWidth and height >= minHeight.
C9_RectWithinMinimums ==
    \A w \in windows :
        /\ rect[w].top >= 0
        /\ rect[w].left >= 0
        /\ rect[w].width >= minWidth
        /\ rect[w].height >= minHeight

\* C10: a pointer-down creates a drag session if and only if its target is
\* tagged as one of the 9 handle kinds; the session records that element, the
\* event's unified (x, y) as anchor and the owning window's rect at that
\* moment as startRect.  A pointer-down on a body or an untagged element
\* creates no session.
C10_DownCreatesSessionIffHandle ==
    [][DownStep =>
          LET e == lastEvent'
          IN  IF e.target.class \in DragClasses
              THEN dragState' = [element |-> e.target, x |-> e.x, y |-> e.y,
                                 top |-> rect[e.target.window].top,
                                 left |-> rect[e.target.window].left,
                                 width |-> rect[e.target.window].width,
                                 height |-> rect[e.target.window].height]
              ELSE dragState' = dragState]_vars

C10_Witness ==
    /\ IsDown(lastEvent)
    /\ lastEvent.target.class \in DragClasses
    /\ dragState # Null
    /\ dragState.element = lastEvent.target
    /\ dragState.x = lastEvent.x
    /\ dragState.y = lastEvent.y
\* This step handled a pointer-up.
UpStep == IsUp(lastEvent')

\* This step handled a pointer-down on one of the 9 handle kinds.
HandleDownStep == DownStep /\ lastEvent'.target.class \in DragClasses

\* C11: a pointer-down whose target is focusable (a handle or the window
\* body) promotes the owning window, which has the highest zIndex afterwards;
\* a pointer-down whose target is not focusable changes no window's zIndex
\* and no window's rect.
C11_DownPromotesFocusable ==
    [][DownStep =>
          LET e == lastEvent'
          IN  IF e.target.class \in DragClasses \cup {"body"}
              THEN IsTopmost(zIndex', e.target.window)
              ELSE zIndex' = zIndex /\ rect' = rect]_vars

C11_Witness ==
    /\ IsDown(lastEvent)
    /\ lastEvent.target.class = "body"
    /\ Cardinality(windows) = 2
    /\ \A w \in windows : zIndex[w] # <<>>
    /\ IsTopmost(zIndex, lastEvent.target.window)

\* C12: a pointer-up (mouse-up or touch-end) in any state leaves no drag
\* session and changes no window's rect or zIndex; from then on no step
\* changes a rect or creates a session until a pointer-down on a handle.
C12_UpEndsSession ==
    [][/\ UpStep => (dragState' = Null /\ rect' = rect /\ zIndex' = zIndex)
       /\ (dragState = Null /\ ~HandleDownStep) => (dragState' = Null /\ rect' = rect)]_vars

C12_Witness ==
    /\ IsUp(lastEvent)
    /\ dragState = Null
    /\ \E w \in windows : rect[w] # WindowProps
\* Handling the event by A instead would leave the same drag session, the
\* same rects and the same zIndex values as this step does.
SameOutcome(A) ==
    \A z \in {zIndex'}, r \in {rect'}, d \in {dragState'} :
        ENABLED (A /\ zIndex' = z /\ rect' = r /\ dragState' = d)

\* C13: touch and mouse inputs are equivalent for the window-manager state:
\* from any state, a mouse-down/move/up and the touchstart/touchmove/touchend
\* with the same target and the same first touch point leave the same drag
\* session, window rects and zIndex values.
C13_TouchMouseEquivalent ==
    [][\A e \in {lastEvent'} :
       LET touchend == [type |-> "touchend", target |-> Desktop, touches |-> <<>>]
       IN  /\ e.type = "mousedown" =>
                /\ handleMouseDown(MouseEvent("mousedown", e.target, e.x, e.y), TRUE)
                /\ SameOutcome(handleTouchStart(TouchEvent("touchstart", e.target, e.x, e.y)))
           /\ e.type = "mousemove" =>
                /\ handleMouseMove(MouseEvent("mousemove", Desktop, e.x, e.y), TRUE)
                /\ SameOutcome(handleTouchMove(TouchEvent("touchmove", Desktop, e.x, e.y)))
           /\ e.type = "mouseup" =>
                /\ handleMouseUp(MouseEvent("mouseup", Desktop, 0, 0), TRUE)
                /\ SameOutcome(handleTouchEnd(touchend))
           /\ \A x \in Coords, y \in Coords :
                /\ (e.type = "touchstart"
                    /\ handleTouchStart(TouchEvent("touchstart", e.target, x, y)))
                     => SameOutcome(handleMouseDown(MouseEvent("mousedown", e.target, x, y), TRUE))
                /\ (e.type = "touchmove"
                    /\ handleTouchMove(TouchEvent("touchmove", Desktop, x, y)))
                     => SameOutcome(handleMouseMove(MouseEvent("mousemove", Desktop, x, y), TRUE))
           /\ (e.type = "touchend" /\ handleTouchEnd(touchend))
                => SameOutcome(handleMouseUp(MouseEvent("mouseup", Desktop, 0, 0), TRUE))]_vars

C13_Witness ==
    /\ lastEvent.type = "touchmove"
    /\ dragState # Null
    /\ lastEvent.x # dragState.x
    /\ rect[dragState.element.window].left # dragState.left
\* C14: a drag session that receives no pointer-up stays active through
\* pointer-move events, and the next pointer-down overwrites it: after that
\* pointer-down the session is the one of the pointer-down's target.
C14_NextDownOverwritesSession ==
    [][/\ (dragState # Null /\ MoveStep) => dragState' # Null
       /\ (dragState # Null /\ DownStep) => (dragState' # Null
                                             /\ dragState'.element = lastEvent'.target)]_vars

\* C15: while a drag session exists, pointer-move events never change the
\* session's anchor, startRect or target element.
C15_SessionFrozenDuringMoves ==
    [][(dragState # Null /\ MoveStep) => dragState' = dragState]_vars

C15_Witness ==
    /\ IsMove(lastEvent)
    /\ dragState # Null
    /\ lastEvent.x # dragState.x
    /\ rect[dragState.element.window].width # dragState.width

\* The rect fields the geometry table lists for a handle.
ListedFields(c) ==
    CASE c = "titleBar" -> {"left", "top"}
      [] c = "rightResizer" -> {"width"}
      [] c = "bottomResizer" -> {"height"}
      [] c = "bottomRightResizer" -> {"width", "height"}
      [] c = "topRightResizer" -> {"top", "width", "height"}
      [] c = "leftResizer" -> {"left", "width"}
      [] c = "topResizer" -> {"top", "height"}
      [] c = "bottomLeftResizer" -> {"left", "width", "height"}
      [] c = "topLeftResizer" -> {"left", "top", "width", "height"}

\* C16: a pointer-move during a drag changes only the rect fields listed for
\* the session's handle on the session's window: no zIndex, no other
\* window's rect, and no field the handle's row leaves blank.
C16_MoveWritesOnlyListedFields ==
    [][(dragState # Null /\ MoveStep) =>
          /\ zIndex' = zIndex
          /\ \A w \in windows \ {dragState.element.window} : rect'[w] = rect[w]
          /\ \A f \in {"top", "left", "width", "height"} \ ListedFields(dragState.element.class) :
                rect'[dragState.element.window][f] = rect[dragState.element.window][f]]_vars

C16_Witness ==
    /\ IsMove(lastEvent)
    /\ Cardinality(windows) = 2
    /\ dragState # Null
    /\ dragState.element.class = "topRightResizer"
    /\ rect[dragState.element.window].width # dragState.width
    /\ rect[dragState.element.window].left = dragState.left
\* The rect a session was started from.
StartRect(state) ==
    [top |-> state.top, left |-> state.left, width |-> state.width, height |-> state.height]

\* C17: within one drag session the target window's rect after a pointer-move
\* at (x, y) depends on the session and (x, y) only: whatever positions were
\* visited before, it is the rect a single move from the start to (x, y) leaves.
C17_RectFunctionOfSessionAndPosition ==
    (IsMove(lastEvent) /\ dragState # Null) =>
        rect[dragState.element.window] =
            MoveWrites(StartRect(dragState), dragState, lastEvent.x, lastEvent.y)
\* C18: during a resize from the top edge (N, and the vertical part of NW)
\* the bottom edge stays fixed: after every pointer-move,
\* top + height = startRect.top + startRect.height.
C18_TopResizeKeepsBottomEdge ==
    [][(dragState # Null /\ MoveStep
        /\ dragState.element.class \in {"topResizer", "topLeftResizer"}) =>
          LET w == dragState.element.window
          IN  rect'[w].top + rect'[w].height = dragState.top + dragState.height]_vars

\* C19: during a resize from the left edge (W, and the horizontal part of SW
\* and NW) the right edge stays fixed: after every pointer-move,
\* left + width = startRect.left + startRect.width.
C19_LeftResizeKeepsRightEdge ==
    [][(dragState # Null /\ MoveStep
        /\ dragState.element.class \in {"leftResizer", "bottomLeftResizer", "topLeftResizer"}) =>
          LET w == dragState.element.window
          IN  rect'[w].left + rect'[w].width = dragState.left + dragState.width]_vars

\* C20: whenever a drag session exists, the window it manipulates has the
\* highest zIndex among the mounted windows.
C20_SessionWindowTopmost ==
    dragState # Null => IsTopmost(zIndex, dragState.element.window)
====
